---------------------------- MODULE Spec2Model ----------------------------
(***************************************************************************)
(* Model of the cucumber step definitions of                               *)
(* features/step_definitions/create-simple-topic.ts: the token service    *)
(* steps (lines 159-881) and the consensus service steps (lines 1-158),    *)
(* each with the scenario context (`this`), its module-level client and    *)
(* the ledger the steps talk to.  A step is one action; a transaction      *)
(* whose receipt the step does not await stays in flight and reaches       *)
(* consensus later (action Consensus).                                     *)
(***************************************************************************)
EXTENDS Integers, Sequences, FiniteSets, TLC

\* ------------------------------------------------------------ bounds
MaxSteps == 6
MainSteps == 4
MaxAmount == 2
MaxTokens == 2
TransferTokens == 1
MaxTopics == 2

\* ------------------------------------------------- program constants
DefaultDecimals == 2
TokenDecimals == 2
FailMintAmount == 100
FallbackSupply == 1000
VerifyDivisor == 100

\* accounts[0..3] of src/config, numbered 1..4; key k is the key of account k
Accounts == {1, 2, 3, 4}
Undef == 0
Scenarios == {1, 2}
Amounts == 0..MaxAmount

\* ctx: the World object of each scenario; client: the module-level client of
\* the token steps; tokens, inflight: the ledger and the transactions on their
\* way to it; status, nsteps, length: the runner's view of each scenario
\* (length is the number of steps its feature file gives it); last: the
\* record of the step that ran last
VARIABLES ctx, client, tokens, inflight, status, nsteps, length, last

\* the consensus service steps: topicCtx holds the keys of the World object
\* they use, topicClient is their module-level client, topics the topics on
\* the ledger
VARIABLES topicCtx, topicClient, topics

\* the number of tokens the run may create on the ledger
VARIABLES tokenCap

vars ==
  <<ctx, client, tokens, inflight, status, nsteps, length, last, topicCtx,
    topicClient, topics, tokenCap>>

\* ------------------------------------------------------ pure helpers
RECURSIVE Pow(_, _)
Pow(b, e) == IF e = 0 THEN 1 ELSE b * Pow(b, e - 1)

adjustForDecimalsMutNoScale(amount) == amount
adjustForDecimals(amount) == amount * Pow(10, DefaultDecimals)

RECURSIVE SumEntries(_)
SumEntries(es) == IF es = <<>> THEN 0 ELSE Head(es).amt + SumEntries(Tail(es))

EntryAccts(es) == {es[i].acct : i \in DOMAIN es}
Debited(es) == {es[i].acct : i \in {j \in DOMAIN es : es[j].amt < 0}}
NetOf(es, a) == SumEntries(SelectSeq(es, LAMBDA e : e.acct = a))

Entry(a, n) == [acct |-> a, amt |-> n]

\* a transaction as the steps build it; kind is "mint", "associate",
\* "transfer" or "create"
Tx(kind, tok, acct, amt, entries, sigs, payer) ==
  [kind |-> kind, token |-> tok, acct |-> acct, amt |-> amt,
   entries |-> entries, sigs |-> sigs, payer |-> payer]

\* what a step did with a transaction: receipt says whether the step awaited
\* getReceipt, seen is the status the step observed
Sent(tx, receipt, seen) ==
  [tx |-> tx, via |-> tx.payer, receipt |-> receipt, seen |-> seen]

\* ------------------------------------------------------------ ledger
NewToken(treasury, supply, supplyKey, origin) ==
  [name |-> "Test Token", symbol |-> "HTT", treasury |-> treasury,
   supplyKey |-> supplyKey, totalSupply |-> supply,
   decimals |-> TokenDecimals,
   bal |-> [a \in Accounts |-> IF a = treasury THEN supply ELSE 0],
   assoc |-> {treasury}, origin |-> origin]

MintStatus(tk, tx) ==
  IF tk[tx.token].supplyKey = Undef THEN "TOKEN_HAS_NO_SUPPLY_KEY"
  ELSE IF tk[tx.token].supplyKey \notin tx.sigs THEN "INVALID_SIGNATURE"
  ELSE IF tx.amt <= 0 THEN "INVALID_TOKEN_MINT_AMOUNT"
  ELSE "SUCCESS"

AssociateStatus(tk, tx) ==
  IF tx.acct \notin tx.sigs THEN "INVALID_SIGNATURE"
  ELSE IF tx.acct \in tk[tx.token].assoc
    THEN "TOKEN_ALREADY_ASSOCIATED_TO_ACCOUNT"
  ELSE "SUCCESS"

TransferStatus(tk, tx) ==
  IF SumEntries(tx.entries) # 0 THEN "TRANSFERS_NOT_ZERO_SUM_FOR_TOKEN"
  ELSE IF ~(EntryAccts(tx.entries) \subseteq tk[tx.token].assoc)
    THEN "TOKEN_NOT_ASSOCIATED_TO_ACCOUNT"
  ELSE IF ~(Debited(tx.entries) \subseteq tx.sigs) THEN "INVALID_SIGNATURE"
  ELSE IF \E a \in EntryAccts(tx.entries) :
            tk[tx.token].bal[a] + NetOf(tx.entries, a) < 0
    THEN "INSUFFICIENT_TOKEN_BALANCE"
  ELSE "SUCCESS"

TxStatus(tk, tx) ==
  CASE tx.kind = "mint" -> MintStatus(tk, tx)
    [] tx.kind = "associate" -> AssociateStatus(tk, tx)
    [] OTHER -> TransferStatus(tk, tx)

\* the ledger after the transaction reached consensus
Apply(tk, tx) ==
  IF TxStatus(tk, tx) # "SUCCESS" THEN tk
  ELSE LET t == tk[tx.token] IN
    CASE tx.kind = "mint" ->
           [tk EXCEPT ![tx.token] =
              [t EXCEPT !.totalSupply = @ + tx.amt,
                        !.bal[t.treasury] = @ + tx.amt]]
      [] tx.kind = "associate" ->
           [tk EXCEPT ![tx.token] = [t EXCEPT !.assoc = @ \cup {tx.acct}]]
      [] OTHER ->
           [tk EXCEPT ![tx.token] =
              [t EXCEPT !.bal = [a \in Accounts |->
                                   t.bal[a] + NetOf(tx.entries, a)]]]

\* ------------------------------------------------------ the context
EmptyContext ==
  [accountId |-> Undef, privateKey |-> Undef,
   firstAccountId |-> Undef, firstPrivateKey |-> Undef,
   secondAccountId |-> Undef, secondPrivateKey |-> Undef,
   thirdAccountId |-> Undef, thirdPrivateKey |-> Undef,
   fourthAccountId |-> Undef, fourthPrivateKey |-> Undef,
   tokenId |-> Undef, pendingTransaction |-> <<>>]

\* the keys of the World object the consensus service steps set
EmptyTopicContext ==
  [account |-> Undef, privKey |-> Undef, secondAccount |-> Undef,
   secondPrivKey |-> Undef, thresholdKey |-> <<>>, topicId |-> Undef,
   submittedMessage |-> <<>>]

NoStep ==
  [scn |-> 0, step |-> "none", args |-> <<>>, passed |-> TRUE,
   logged |-> FALSE, missing |-> FALSE, again |-> FALSE, txs |-> <<>>,
   checked |-> FALSE, current |-> 0, expected |-> 0]

\* before the first step: n is the length of the scenarios, k the number of
\* tokens the run may create
StartWith(n, k) ==
  /\ ctx = [s \in Scenarios |-> EmptyContext]
  /\ client = [operator |-> Undef]
  /\ tokens = <<>>
  /\ inflight = {}
  /\ status = [s \in Scenarios |-> "running"]
  /\ nsteps = [s \in Scenarios |-> 0]
  /\ length = [s \in Scenarios |-> n]
  /\ last = NoStep
  /\ topicCtx = [s \in Scenarios |-> EmptyTopicContext]
  /\ topicClient = [operator |-> Undef]
  /\ topics = <<>>
  /\ tokenCap = k

Start(n) == StartWith(n, MaxTokens)

Init == Start(MainSteps)

\* steps run one after another; a failed step ends the scenario (the runner
\* skips the steps that follow)
CanStep(s) == status[s] = "running" /\ nsteps[s] < length[s]

\* the record of the step just run: logged says that a catch block logged an
\* error, missing that the step used a context key no earlier step had set,
\* again that the step before it was the same step with the same arguments,
\* checked that it compared current with expected
Did(s, step, args, threw, logged, missing, txs, checked, current, expected) ==
  [scn |-> s, step |-> step, args |-> args, passed |-> ~threw,
   logged |-> logged, missing |-> missing,
   again |-> (last.scn = s /\ last.step = step /\ last.args = args),
   txs |-> txs, checked |-> checked, current |-> current,
   expected |-> expected]

\* the step returns (or throws): the context, the module-level client and the
\* ledger as it leaves them
Finish(s, c2, op2, tk2, inf2, rec) ==
  /\ ctx' = [ctx EXCEPT ![s] = c2]
  /\ client' = [operator |-> op2]
  /\ tokens' = tk2
  /\ inflight' = inf2
  /\ status' = [status EXCEPT ![s] = IF rec.passed THEN "running" ELSE "failed"]
  /\ nsteps' = [nsteps EXCEPT ![s] = @ + 1]
  /\ length' = length
  /\ last' = rec
  /\ UNCHANGED <<topicCtx, topicClient, topics, tokenCap>>

\* the transactions in flight that are equal to tx
Alike(tx) == {f \in inflight : f.tx = tx}

\* an in-flight transaction carries the scenario and step that submitted it;
\* every execute of an association puts one more transaction in flight, and
\* equal associations are numbered 0, 1, ... in the order they were sent
Flying(s, tx) ==
  [id |-> IF tx.kind = "associate" THEN <<Cardinality(Alike(tx))>>
          ELSE <<s, nsteps[s]>>,
   tx |-> tx]

\* what leaves inflight when f has landed: of equal associations, which
\* nothing tells apart, the one numbered last
Landed(f) ==
  IF f.tx.kind = "associate"
    THEN [f EXCEPT !.id = <<Cardinality(Alike(f.tx)) - 1>>]
    ELSE f

\* a transaction nobody waits for reaches consensus
Consensus ==
  \E f \in inflight :
    /\ tokens' = Apply(tokens, f.tx)
    /\ inflight' = inflight \ {Landed(f)}
    /\ UNCHANGED <<ctx, client, status, nsteps, length, last>>
    /\ UNCHANGED <<topicCtx, topicClient, topics, tokenCap>>

\* ------------------------------------------------- token service steps
\* JavaScript's x / d === y on integers
DivEquals(x, d, y) == x % d = 0 /\ x \div d = y

\* Given A Hedera account with more than N hbar
GivenHederaAccount(s) ==
  /\ CanStep(s)
  /\ \E enough \in BOOLEAN :
       Finish(s, [ctx[s] EXCEPT !.accountId = 1, !.privateKey = 1], 1,
              tokens, inflight,
              Did(s, "GivenHederaAccount", <<>>, ~enough, FALSE, FALSE, <<>>,
                  FALSE, 0, 0))

\* TokenCreateTransaction ... execute(client), getReceipt(client): the
\* operator of client pays and signs; the treasury and the admin key must sign
CreateTx(treasury, supply) ==
  Tx("create", Len(tokens) + 1, treasury, supply, <<>>,
     {client.operator}, client.operator)

CreateStatus(tx, adminKey) ==
  IF tx.acct \notin tx.sigs \/ adminKey \notin tx.sigs
    THEN "INVALID_SIGNATURE" ELSE "SUCCESS"

\* When I create a token named Test Token (HTT)
WhenCreateToken(s) ==
  LET c == ctx[s]
      missing == c.accountId = Undef \/ c.privateKey = Undef
      tx == CreateTx(c.accountId, 0)
      st == CreateStatus(tx, c.privateKey)
  IN
  /\ CanStep(s)
  /\ IF missing \/ client.operator = Undef
       THEN Finish(s, c, client.operator, tokens, inflight,
                   Did(s, "WhenCreateToken", <<>>, TRUE, FALSE, missing, <<>>,
                       FALSE, 0, 0))
       ELSE /\ Len(tokens) < tokenCap
            /\ Finish(s,
                 IF st = "SUCCESS" THEN [c EXCEPT !.tokenId = Len(tokens) + 1]
                 ELSE c,
                 client.operator,
                 IF st = "SUCCESS"
                   THEN Append(tokens, NewToken(c.accountId, 0, c.privateKey,
                                                "mintable"))
                   ELSE tokens,
                 inflight,
                 Did(s, "WhenCreateToken", <<>>, st # "SUCCESS", FALSE, FALSE,
                     <<Sent(tx, TRUE, st)>>, FALSE, 0, 0))

\* When I create a fixed supply token named Test Token (HTT) with N tokens
WhenCreateFixedSupplyToken(s, supply) ==
  LET c == ctx[s]
      missing == c.accountId = Undef \/ c.privateKey = Undef
      tx == CreateTx(c.accountId, adjustForDecimals(supply))
      st == CreateStatus(tx, c.privateKey)
  IN
  /\ CanStep(s)
  /\ IF missing \/ client.operator = Undef
       THEN Finish(s, c, client.operator, tokens, inflight,
                   Did(s, "WhenCreateFixedSupplyToken", <<supply>>, TRUE,
                       FALSE, missing, <<>>, FALSE, 0, 0))
       ELSE /\ Len(tokens) < tokenCap
            /\ Finish(s,
                 IF st = "SUCCESS" THEN [c EXCEPT !.tokenId = Len(tokens) + 1]
                 ELSE c,
                 client.operator,
                 IF st = "SUCCESS"
                   THEN Append(tokens,
                               NewToken(c.accountId, adjustForDecimals(supply),
                                        Undef, "fixed"))
                   ELSE tokens,
                 inflight,
                 Did(s, "WhenCreateFixedSupplyToken", <<supply>>,
                     st # "SUCCESS", FALSE, FALSE, <<Sent(tx, TRUE, st)>>,
                     FALSE, 0, 0))

\* the steps that query the token info and assert one of its fields: the
\* query throws on an unset tokenId and without an operator; holds says
\* whether the assertion holds for the info the query returns
TokenInfoStep(s, step, args, holds, checked, current, expected) ==
  LET c == ctx[s]
      missing == c.tokenId = Undef
  IN
  /\ CanStep(s)
  /\ IF missing \/ client.operator = Undef
       THEN Finish(s, c, client.operator, tokens, inflight,
                   Did(s, step, args, TRUE, FALSE, missing, <<>>, FALSE, 0, 0))
       ELSE Finish(s, c, client.operator, tokens, inflight,
                   Did(s, step, args, ~holds, FALSE, FALSE, <<>>, checked,
                       current, expected))

\* the info of the token of the scenario's context
TokenInfo(s) == tokens[ctx[s].tokenId]

Names == {"Test Token", "Other Token"}
Symbols == {"HTT", "XYZ"}

\* Then The token has the name N
ThenTokenHasName(s, name) ==
  TokenInfoStep(s, "ThenTokenHasName", <<name>>, TokenInfo(s).name = name,
                FALSE, 0, 0)

\* Then The token has the symbol S
ThenTokenHasSymbol(s, symbol) ==
  TokenInfoStep(s, "ThenTokenHasSymbol", <<symbol>>,
                TokenInfo(s).symbol = symbol, FALSE, 0, 0)

\* Then The token has N decimals
ThenTokenHasDecimals(s, decimals) ==
  TokenInfoStep(s, "ThenTokenHasDecimals", <<decimals>>,
                TokenInfo(s).decimals = decimals, TRUE,
                TokenInfo(s).decimals, decimals)

\* Then The token is owned by the account: this.accountId.toString() throws
\* on an unset accountId, after the query
ThenTokenOwnedByAccount(s) ==
  LET c == ctx[s]
      missing == c.tokenId = Undef
      noacct == c.accountId = Undef
  IN
  /\ CanStep(s)
  /\ IF missing \/ client.operator = Undef
       THEN Finish(s, c, client.operator, tokens, inflight,
                   Did(s, "ThenTokenOwnedByAccount", <<>>, TRUE, FALSE,
                       missing, <<>>, FALSE, 0, 0))
       ELSE Finish(s, c, client.operator, tokens, inflight,
                   Did(s, "ThenTokenOwnedByAccount", <<>>,
                       noacct \/ tokens[c.tokenId].treasury # c.accountId,
                       FALSE, noacct, <<>>, ~noacct,
                       tokens[c.tokenId].treasury, c.accountId))

\* Then An attempt to mint N additional tokens succeeds: setTokenId throws on
\* an unset tokenId, then freezeWith throws without an operator, then sign
\* throws on an unset key
ThenMintSucceeds(s, amount) ==
  LET c == ctx[s]
      missing == \/ c.tokenId = Undef
                 \/ client.operator # Undef /\ c.privateKey = Undef
      tx == Tx("mint", c.tokenId, Undef, adjustForDecimals(amount), <<>>,
               {c.privateKey, client.operator}, client.operator)
      st == TxStatus(tokens, tx)
  IN
  /\ CanStep(s)
  /\ IF missing \/ client.operator = Undef
       THEN Finish(s, c, client.operator, tokens, inflight,
                   Did(s, "ThenMintSucceeds", <<amount>>, TRUE, FALSE, missing,
                       <<>>, FALSE, 0, 0))
       ELSE Finish(s, c, client.operator, Apply(tokens, tx), inflight,
                   Did(s, "ThenMintSucceeds", <<amount>>, st # "SUCCESS",
                       FALSE, FALSE, <<Sent(tx, TRUE, st)>>, FALSE, 0, 0))

\* assert.strictEqual(totalSupply / Math.pow(10, decimals), expectedSupply)
TotalSupplyMatches(info, expectedSupply) ==
  DivEquals(info.totalSupply, Pow(10, info.decimals), expectedSupply)

\* Then The total supply of the token is N
ThenTotalSupplyIs(s, expectedSupply) ==
  LET c == ctx[s]
      missing == c.tokenId = Undef
  IN
  /\ CanStep(s)
  /\ IF missing \/ client.operator = Undef
       THEN Finish(s, c, client.operator, tokens, inflight,
                   Did(s, "ThenTotalSupplyIs", <<expectedSupply>>, TRUE, FALSE,
                       missing, <<>>, FALSE, 0, 0))
       ELSE LET info == tokens[c.tokenId]
                ok == TotalSupplyMatches(info, expectedSupply)
            IN Finish(s, c, client.operator, tokens, inflight,
                      Did(s, "ThenTotalSupplyIs", <<expectedSupply>>, ~ok,
                          FALSE, FALSE, <<>>, TRUE, info.totalSupply,
                          expectedSupply))

\* Then An attempt to mint tokens fails: the whole body is in a try block
\* whose catch swallows what is thrown, the assert.fail after an accepted
\* execute included; the mint's receipt is not awaited
ThenMintFails(s) ==
  LET c == ctx[s]
      missing == \/ c.tokenId = Undef
                 \/ client.operator # Undef /\ c.privateKey = Undef
      tx == Tx("mint", c.tokenId, Undef, FailMintAmount, <<>>,
               {c.privateKey, client.operator}, client.operator)
      accepted == ~missing /\ client.operator # Undef
  IN
  /\ CanStep(s)
  /\ Finish(s, c, client.operator, tokens,
            IF accepted THEN inflight \cup {Flying(s, tx)} ELSE inflight,
            Did(s, "ThenMintFails", <<>>, FALSE, TRUE, missing,
                IF accepted THEN <<Sent(tx, FALSE, "UNKNOWN")>> ELSE <<>>,
                FALSE, 0, 0))

\* ------------------------------------------------ balance set-up steps
getTokenBalance(tk, accountId, tokenId) == tk[tokenId].bal[accountId]

\* the amount a set-up step mints or transfers
ReconcileDeltaMutExpected(current, expected) == expected
ReconcileDelta(current, expected) == expected - current

\* if (currentBalance !== expectedBalance)
NeedsAdjustMutAlways(current, expected) == TRUE
NeedsAdjust(current, expected) == current # expected

\* if (tokenInfo.treasuryAccountId?.toString() === this.firstAccountId
\* .toString()) { if (currentBalance < expectedBalance) { mint } }
ShouldMintMutAnyDifference(treasury, accountId, current, expected) ==
  treasury = accountId
ShouldMint(treasury, accountId, current, expected) ==
  treasury = accountId /\ current < expected

\* the reconciliation of the first account's balance (lines 436-463, 511-538
\* and 679-704): c is the context, op the operator of client, key the key the
\* mint is signed with, done the transactions the step sent before; the
\* token info query throws without an operator and sign throws on an unset
\* key, both inside the try block
ReconcileFirst(s, step, args, c, op, tk, key, done) ==
  LET current == getTokenBalance(tk, c.firstAccountId, c.tokenId)
      expected == adjustForDecimals(args[Len(args)])
      tx == Tx("mint", c.tokenId, Undef, ReconcileDelta(current, expected),
               <<>>, {key, op}, op)
      wants == /\ NeedsAdjust(current, expected)
               /\ op # Undef
               /\ ShouldMint(tk[c.tokenId].treasury, c.firstAccountId,
                             current, expected)
      nokey == wants /\ key = Undef
      mints == wants /\ ~nokey
  IN Finish(s, c, op, tk,
            IF mints THEN inflight \cup {Flying(s, tx)} ELSE inflight,
            Did(s, step, args, FALSE,
                (NeedsAdjust(current, expected) /\ op = Undef) \/ nokey,
                nokey,
                done \o (IF mints THEN <<Sent(tx, FALSE, "UNKNOWN")>>
                         ELSE <<>>),
                TRUE, current, expected))

\* Given The first account initially holds N HTT tokens
\* Given The first account holds N HTT tokens
FirstHolds(s, step, amount) ==
  LET c == ctx[s]
      missing == c.firstAccountId = Undef \/ c.tokenId = Undef
  IN
  /\ CanStep(s)
  /\ IF missing
       THEN Finish(s, c, client.operator, tokens, inflight,
                   Did(s, step, <<amount>>, TRUE, FALSE, TRUE, <<>>, FALSE,
                       0, 0))
       ELSE ReconcileFirst(s, step, <<amount>>, c, client.operator, tokens,
                           c.firstPrivateKey, <<>>)

GivenFirstInitiallyHolds(s, amount) ==
  FirstHolds(s, "GivenFirstInitiallyHolds", amount)

GivenFirstHolds(s, amount) == FirstHolds(s, "GivenFirstHolds", amount)

\* if (!this.tokenId)
NeedsTokenMutAlways(c) == TRUE
NeedsToken(c) == c.tokenId = Undef

\* Given A first hedera account with more than H hbar and N HTT tokens
GivenFirstWithTokens(s, tokenAmount) ==
  LET c1 == [ctx[s] EXCEPT !.firstAccountId = 1, !.firstPrivateKey = 1]
      creates == NeedsToken(c1)
      supply == adjustForDecimals(FallbackSupply)
      create == Tx("create", Len(tokens) + 1, 1, supply, <<>>, {1}, 1)
  IN
  /\ CanStep(s)
  /\ \E enough \in BOOLEAN :
       IF ~enough
         THEN Finish(s, c1, 1, tokens, inflight,
                     Did(s, "GivenFirstWithTokens", <<tokenAmount>>, TRUE,
                         FALSE, FALSE, <<>>, FALSE, 0, 0))
         ELSE IF creates
           THEN /\ Len(tokens) < tokenCap
                /\ ReconcileFirst(s, "GivenFirstWithTokens", <<tokenAmount>>,
                                  [c1 EXCEPT !.tokenId = Len(tokens) + 1], 1,
                                  Append(tokens,
                                         NewToken(1, supply, 1, "fallback")),
                                  1, <<Sent(create, TRUE, "SUCCESS")>>)
           ELSE ReconcileFirst(s, "GivenFirstWithTokens", <<tokenAmount>>,
                               c1, 1, tokens, 1, <<>>)

\* Given A first hedera account with more than N hbar
GivenFirstHederaAccount(s) ==
  /\ CanStep(s)
  /\ \E enough \in BOOLEAN :
       Finish(s, [ctx[s] EXCEPT !.firstAccountId = 1, !.firstPrivateKey = 1],
              1, tokens, inflight,
              Did(s, "GivenFirstHederaAccount", <<>>, ~enough, FALSE, FALSE,
                  <<>>, FALSE, 0, 0))

\* Given A second Hedera account
GivenSecondHederaAccount(s) ==
  /\ CanStep(s)
  /\ Finish(s, [ctx[s] EXCEPT !.secondAccountId = 2, !.secondPrivateKey = 2],
            client.operator, tokens, inflight,
            Did(s, "GivenSecondHederaAccount", <<>>, FALSE, FALSE, FALSE,
                <<>>, FALSE, 0, 0))

\* Given A token named Test Token (HTT) with N tokens
GivenTokenNamed(s, supply) ==
  LET c1 == IF ctx[s].firstAccountId = Undef
              THEN [ctx[s] EXCEPT !.firstAccountId = 1, !.firstPrivateKey = 1]
              ELSE ctx[s]
      op == IF ctx[s].firstAccountId = Undef THEN 1 ELSE client.operator
      tx == Tx("create", Len(tokens) + 1, c1.firstAccountId,
               adjustForDecimals(supply), <<>>, {op}, op)
      st == CreateStatus(tx, c1.firstPrivateKey)
  IN
  /\ CanStep(s)
  /\ IF c1.firstPrivateKey = Undef \/ op = Undef
       THEN Finish(s, c1, op, tokens, inflight,
                   Did(s, "GivenTokenNamed", <<supply>>, TRUE, FALSE,
                       c1.firstPrivateKey = Undef, <<>>, FALSE, 0, 0))
       ELSE /\ Len(tokens) < tokenCap
            /\ Finish(s,
                 IF st = "SUCCESS" THEN [c1 EXCEPT !.tokenId = Len(tokens) + 1]
                 ELSE c1,
                 op,
                 IF st = "SUCCESS"
                   THEN Append(tokens,
                               NewToken(c1.firstAccountId,
                                        adjustForDecimals(supply),
                                        c1.firstPrivateKey, "named"))
                   ELSE tokens,
                 inflight,
                 Did(s, "GivenTokenNamed", <<supply>>, st # "SUCCESS", FALSE,
                     FALSE, <<Sent(tx, TRUE, st)>>, FALSE, 0, 0))

\* whether the account already shows the token in its balance query
NeedsAssociationMutNever(tk, accountId, tokenId) == FALSE
NeedsAssociation(tk, accountId, tokenId) == accountId \notin tk[tokenId].assoc

\* the try block of the set-up steps of the second, third and fourth account
\* (lines 472-500, 546-593, 720-747, 764-791, 808-835): c is the context, acct
\* and key the account set up, always whether the association is submitted
\* without looking at the balance query, early whether the association
\* reaches consensus before the transfer that follows it
SetupOther(s, step, amount, c, acct, key, always, early) ==
  LET missA == acct = Undef \/ key = Undef
      missT == c.tokenId = Undef
      tok == c.tokenId
      associates == always \/ NeedsAssociation(tokens, acct, tok)
      assocTx == Tx("associate", tok, acct, 0, <<>>, {key}, acct)
      tk1 == IF associates /\ early THEN Apply(tokens, assocTx) ELSE tokens
      current == getTokenBalance(tk1, acct, tok)
      expected == adjustForDecimals(amount)
      wants == amount > 0 /\ NeedsAdjust(current, expected)
      missF == wants /\ c.firstAccountId = Undef
      noOp == wants /\ ~missF /\ client.operator = Undef
      transfers == wants /\ ~missF /\ ~noOp
      d == ReconcileDelta(current, expected)
      trTx == Tx("transfer", tok, Undef, 0,
                 <<Entry(c.firstAccountId, -d), Entry(acct, d)>>,
                 {client.operator}, client.operator)
      st == TransferStatus(tk1, trTx)
  IN
  IF missA \/ missT
    THEN Finish(s, c, client.operator, tokens, inflight,
                Did(s, step, <<amount>>, FALSE, TRUE, TRUE, <<>>, FALSE, 0, 0))
    ELSE Finish(s, c, client.operator,
                IF transfers THEN Apply(tk1, trTx) ELSE tk1,
                IF associates /\ ~early
                  THEN inflight \cup {Flying(s, assocTx)} ELSE inflight,
                Did(s, step, <<amount>>, FALSE,
                    missF \/ noOp \/ (transfers /\ st # "SUCCESS"), missF,
                    (IF associates THEN <<Sent(assocTx, FALSE, "UNKNOWN")>>
                     ELSE <<>>) \o
                    (IF transfers THEN <<Sent(trTx, TRUE, st)>> ELSE <<>>),
                    amount > 0, current, expected))

\* a set-up step that does nothing but log when the amount is 0
SetupIfPositive(s, step, amount, c, acct, key) ==
  IF amount > 0
    THEN \E early \in BOOLEAN :
           SetupOther(s, step, amount, c, acct, key, TRUE, early)
    ELSE Finish(s, c, client.operator, tokens, inflight,
                Did(s, step, <<amount>>, FALSE, FALSE, FALSE, <<>>, FALSE,
                    0, 0))

\* Given The second account initially holds N HTT tokens
GivenSecondInitiallyHolds(s, amount) ==
  /\ CanStep(s)
  /\ SetupIfPositive(s, "GivenSecondInitiallyHolds", amount, ctx[s],
                     ctx[s].secondAccountId, ctx[s].secondPrivateKey)

\* Given The second account holds N HTT tokens
GivenSecondHolds(s, amount) ==
  /\ CanStep(s)
  /\ \E early \in BOOLEAN :
       SetupOther(s, "GivenSecondHolds", amount, ctx[s],
                  ctx[s].secondAccountId, ctx[s].secondPrivateKey, FALSE,
                  early)

\* Given A second Hedera account with H hbar and N HTT tokens
GivenSecondWithTokens(s, tokenAmount) ==
  /\ CanStep(s)
  /\ SetupIfPositive(s, "GivenSecondWithTokens", tokenAmount,
                     [ctx[s] EXCEPT !.secondAccountId = 2,
                                    !.secondPrivateKey = 2], 2, 2)

\* Given A third Hedera account with H hbar and N HTT tokens
GivenThirdWithTokens(s, tokenAmount) ==
  /\ CanStep(s)
  /\ SetupIfPositive(s, "GivenThirdWithTokens", tokenAmount,
                     [ctx[s] EXCEPT !.thirdAccountId = 3,
                                    !.thirdPrivateKey = 3], 3, 3)

\* Given A fourth Hedera account with H hbar and N HTT tokens
GivenFourthWithTokens(s, tokenAmount) ==
  /\ CanStep(s)
  /\ SetupIfPositive(s, "GivenFourthWithTokens", tokenAmount,
                     [ctx[s] EXCEPT !.fourthAccountId = 4,
                                    !.fourthPrivateKey = 4], 4, 4)

\* ------------------------------------------------------ transfer steps
\* a TransferTransaction kept in the context: trail lists what was done to
\* it, in order (freeze with the operator, sign with a key, execute with the
\* operator of the submitting client)
NewTransfer(tok, entries) ==
  [tx |-> Tx("transfer", tok, Undef, 0, entries, {}, Undef),
   frozen |-> FALSE, executed |-> FALSE, trail |-> <<>>]

\* freezeWith(client): the operator of that client becomes the payer
FreezeWith(p, operator) ==
  [p EXCEPT !.tx.payer = operator, !.frozen = TRUE,
            !.trail = Append(@, [op |-> "freeze", key |-> operator])]

\* sign(key)
Sign(p, key) ==
  [p EXCEPT !.tx.sigs = @ \cup {key},
            !.trail = Append(@, [op |-> "sign", key |-> key])]

\* the keys the multi-party step signs with
MultiPartySignersMutFirstOnly(c) == <<c.firstPrivateKey>>
MultiPartySigners(c) == <<c.firstPrivateKey, c.secondPrivateKey>>

\* the signatures in order; sign(undefined) throws and ends them
RECURSIVE SignAll(_, _)
SignAll(p, keys) ==
  IF keys = <<>> \/ Head(keys) = Undef THEN p
  ELSE SignAll(Sign(p, Head(keys)), Tail(keys))

\* the entries of the multi-party transfer
MultiPartyEntriesMutOneDebit(c, outAmount, thirdAmount, fourthAmount) ==
  <<Entry(c.firstAccountId, -adjustForDecimals(outAmount)),
    Entry(c.secondAccountId, 0),
    Entry(c.thirdAccountId, adjustForDecimals(thirdAmount)),
    Entry(c.fourthAccountId, adjustForDecimals(fourthAmount))>>

MultiPartyEntries(c, outAmount, thirdAmount, fourthAmount) ==
  <<Entry(c.firstAccountId, -adjustForDecimals(outAmount)),
    Entry(c.secondAccountId, -adjustForDecimals(outAmount)),
    Entry(c.thirdAccountId, adjustForDecimals(thirdAmount)),
    Entry(c.fourthAccountId, adjustForDecimals(fourthAmount))>>

\* the step builds the transfer, stores it, freezes it and signs it; the
\* build throws on an unset key (one of needs) before anything is stored,
\* freezeWith throws without an operator and sign throws on an unset key
\* after the transfer is stored
CreateTransfer(s, step, args, needs, entries, operator, keys) ==
  LET c == ctx[s]
      missing == Undef \in needs
      built == NewTransfer(c.tokenId, entries)
      nokey == \E i \in DOMAIN keys : keys[i] = Undef
  IN
  /\ CanStep(s)
  /\ IF missing
       THEN Finish(s, c, client.operator, tokens, inflight,
                   Did(s, step, args, TRUE, FALSE, TRUE, <<>>, FALSE, 0, 0))
       ELSE IF operator = Undef
         THEN Finish(s, [c EXCEPT !.pendingTransaction = <<built>>],
                     client.operator, tokens, inflight,
                     Did(s, step, args, TRUE, FALSE, FALSE, <<>>, FALSE, 0, 0))
         ELSE Finish(s,
                     [c EXCEPT !.pendingTransaction =
                        <<SignAll(FreezeWith(built, operator), keys)>>],
                     client.operator, tokens, inflight,
                     Did(s, step, args, nokey, FALSE, nokey, <<>>, FALSE,
                         0, 0))

\* When The first account creates a transaction to transfer N HTT tokens to
\* the second account
WhenFirstCreatesTransfer(s, amount) ==
  LET c == ctx[s] IN
  CreateTransfer(s, "WhenFirstCreatesTransfer", <<amount>>,
                 {c.tokenId, c.firstAccountId, c.secondAccountId},
                 <<Entry(c.firstAccountId, -adjustForDecimals(amount)),
                   Entry(c.secondAccountId, adjustForDecimals(amount))>>,
                 client.operator, <<c.firstPrivateKey>>)

\* When The second account creates a transaction to transfer N HTT tokens to
\* the first account
WhenSecondCreatesTransfer(s, amount) ==
  LET c == ctx[s] IN
  CreateTransfer(s, "WhenSecondCreatesTransfer", <<amount>>,
                 {c.tokenId, c.firstAccountId, c.secondAccountId,
                  c.secondPrivateKey},
                 <<Entry(c.secondAccountId, -adjustForDecimals(amount)),
                   Entry(c.firstAccountId, adjustForDecimals(amount))>>,
                 c.secondAccountId, <<c.secondPrivateKey>>)

\* When A transaction is created to transfer X HTT tokens out of the first and
\* second account and Y HTT tokens into the third account and Z HTT tokens
\* into the fourth account
WhenMultiPartyTransfer(s, outAmount, thirdAmount, fourthAmount) ==
  LET c == ctx[s] IN
  CreateTransfer(s, "WhenMultiPartyTransfer",
                 <<outAmount, thirdAmount, fourthAmount>>,
                 {c.tokenId, c.firstAccountId, c.secondAccountId,
                  c.thirdAccountId, c.fourthAccountId},
                 MultiPartyEntries(c, outAmount, thirdAmount, fourthAmount),
                 client.operator, MultiPartySigners(c))

\* When The first account submits the transaction
WhenFirstSubmits(s) ==
  LET c == ctx[s]
      missing == c.pendingTransaction = <<>>
      p0 == c.pendingTransaction[1]
      p == IF p0.frozen THEN p0 ELSE FreezeWith(p0, client.operator)
      tx == [p.tx EXCEPT !.sigs = @ \cup {p.tx.payer}]
      st == TransferStatus(tokens, tx)
  IN
  /\ CanStep(s)
  /\ IF missing
       THEN Finish(s, c, client.operator, tokens, inflight,
                   Did(s, "WhenFirstSubmits", <<>>, TRUE, FALSE, TRUE, <<>>,
                       FALSE, 0, 0))
       ELSE IF p.executed \/ p.tx.payer = Undef
         THEN Finish(s, c, client.operator, tokens, inflight,
                     Did(s, "WhenFirstSubmits", <<>>, TRUE, FALSE, FALSE,
                         <<>>, FALSE, 0, 0))
         ELSE Finish(s,
                     [c EXCEPT !.pendingTransaction =
                        <<[p EXCEPT !.tx = tx, !.executed = TRUE,
                                    !.trail =
                                      Append(@, [op |-> "execute",
                                                 key |-> client.operator])]>>],
                     client.operator, Apply(tokens, tx), inflight,
                     Did(s, "WhenFirstSubmits", <<>>, st # "SUCCESS", FALSE,
                         FALSE,
                         <<[Sent(tx, TRUE, st) EXCEPT
                              !.via = client.operator]>>,
                         FALSE, 0, 0))

\* Then The first account has paid for the transaction fee
ThenFirstPaidFee(s) ==
  /\ CanStep(s)
  /\ Finish(s, ctx[s], client.operator, tokens, inflight,
            Did(s, "ThenFirstPaidFee", <<>>, FALSE, FALSE, FALSE, <<>>, FALSE,
                0, 0))

\* ------------------------------------------------- verification steps
\* assert.strictEqual(balance / 100, expectedAmount)
BalanceMatchesMutRaw(balance, expectedAmount) == balance = expectedAmount
BalanceMatches(balance, expectedAmount) ==
  DivEquals(balance, VerifyDivisor, expectedAmount)

verifyTokenBalance(s, step, accountId, expectedAmount) ==
  LET c == ctx[s]
      missing == accountId = Undef \/ c.tokenId = Undef
  IN
  /\ CanStep(s)
  /\ IF missing
       THEN Finish(s, c, client.operator, tokens, inflight,
                   Did(s, step, <<expectedAmount>>, TRUE, FALSE, TRUE, <<>>,
                       FALSE, 0, 0))
       ELSE LET balance == getTokenBalance(tokens, accountId, c.tokenId)
            IN Finish(s, c, client.operator, tokens, inflight,
                      Did(s, step, <<expectedAmount>>,
                          ~BalanceMatches(balance, expectedAmount), FALSE,
                          FALSE, <<>>, TRUE, balance, expectedAmount))

\* Then The first account should hold N HTT tokens
ThenFirstShouldHold(s, n) ==
  verifyTokenBalance(s, "ThenFirstShouldHold", ctx[s].firstAccountId, n)

\* Then The second account should hold N HTT tokens
ThenSecondShouldHold(s, n) ==
  verifyTokenBalance(s, "ThenSecondShouldHold", ctx[s].secondAccountId, n)

\* Then The third account holds N HTT tokens
ThenThirdHolds(s, n) ==
  verifyTokenBalance(s, "ThenThirdHolds", ctx[s].thirdAccountId, n)

\* Then The fourth account holds N HTT tokens
ThenFourthHolds(s, n) ==
  verifyTokenBalance(s, "ThenFourthHolds", ctx[s].fourthAccountId, n)

\* --------------------------------------------- consensus service steps
Messages == {"hello", "bye"}
Memos == {"Taxi rides"}
Thresholds == {1, 2}

\* new KeyList(publicKeys, threshold)
KeyList(keys, threshold) == [keys |-> keys, threshold |-> threshold]

TopicTx(kind, topic, message, sigs, payer) ==
  [kind |-> kind, topic |-> topic, message |-> message, sigs |-> sigs,
   payer |-> payer]

\* a topic on the ledger: submitKey is <<>> when the topic has none, messages
\* are the messages that reached consensus, each with the scenario it is from
NewTopic(memo, submitKey) ==
  [memo |-> memo, submitKey |-> submitKey, messages |-> {}]

\* whether the signatures satisfy a key list
Satisfies(sigs, key) == Cardinality(key.keys \cap sigs) >= key.threshold

\* the receipt status of a TopicMessageSubmitTransaction
SubmitStatus(tp, tx) ==
  IF tp[tx.topic].submitKey = <<>> THEN "SUCCESS"
  ELSE IF Satisfies(tx.sigs, tp[tx.topic].submitKey[1]) THEN "SUCCESS"
  ELSE "INVALID_SIGNATURE"

\* the step returns (or throws): the topic keys of the context, the
\* module-level client of the consensus service steps and the topics
TopicFinish(s, c2, op2, tp2, rec) ==
  /\ topicCtx' = [topicCtx EXCEPT ![s] = c2]
  /\ topicClient' = [operator |-> op2]
  /\ topics' = tp2
  /\ status' = [status EXCEPT ![s] = IF rec.passed THEN "running" ELSE "failed"]
  /\ nsteps' = [nsteps EXCEPT ![s] = @ + 1]
  /\ last' = rec
  /\ UNCHANGED <<ctx, client, tokens, inflight, length, tokenCap>>

\* Given a first account with more than N hbars
GivenFirstAccount(s) ==
  /\ CanStep(s)
  /\ \E enough \in BOOLEAN :
       TopicFinish(s, [topicCtx[s] EXCEPT !.account = 1, !.privKey = 1], 1,
                   topics,
                   Did(s, "GivenFirstAccount", <<>>, ~enough, FALSE, FALSE,
                       <<>>, FALSE, 0, 0))

\* Given A second account with more than N hbars
GivenSecondAccount(s) ==
  /\ CanStep(s)
  /\ \E enough \in BOOLEAN :
       TopicFinish(s,
                   [topicCtx[s] EXCEPT !.secondAccount = 2,
                                       !.secondPrivKey = 2],
                   topicClient.operator, topics,
                   Did(s, "GivenSecondAccount", <<>>, ~enough, FALSE, FALSE,
                       <<>>, FALSE, 0, 0))

\* Given A T of N threshold key with the first and second account
GivenThresholdKey(s, threshold) ==
  LET c == topicCtx[s]
      missing == c.privKey = Undef \/ c.secondPrivKey = Undef
  IN
  /\ CanStep(s)
  /\ TopicFinish(s,
                 IF missing THEN c
                 ELSE [c EXCEPT !.thresholdKey =
                         <<KeyList({c.privKey, c.secondPrivKey}, threshold)>>],
                 topicClient.operator, topics,
                 Did(s, "GivenThresholdKey", <<threshold>>, missing, FALSE,
                     missing, <<>>, FALSE, 0, 0))

\* TopicCreateTransaction ... execute(client), getReceipt(client), then
\* TopicInfoQuery and assert.strictEqual(topicInfo.topicMemo, memo)
CreateTopic(s, step, memo, missing, submitKey) ==
  LET c == topicCtx[s]
      tx == TopicTx("createTopic", Len(topics) + 1, memo,
                    {topicClient.operator}, topicClient.operator)
      created == Append(topics, NewTopic(memo, submitKey))
  IN
  /\ CanStep(s)
  /\ IF missing \/ topicClient.operator = Undef
       THEN TopicFinish(s, c, topicClient.operator, topics,
                        Did(s, step, <<memo>>, TRUE, FALSE, missing, <<>>,
                            FALSE, 0, 0))
       ELSE /\ Len(topics) < MaxTopics
            /\ TopicFinish(s, [c EXCEPT !.topicId = Len(topics) + 1],
                           topicClient.operator, created,
                           Did(s, step, <<memo>>,
                               created[Len(topics) + 1].memo # memo, FALSE,
                               FALSE, <<Sent(tx, TRUE, "SUCCESS")>>, FALSE,
                               0, 0))

\* When A topic is created with the memo M with the first account as the
\* submit key
WhenTopicWithFirstKey(s, memo) ==
  CreateTopic(s, "WhenTopicWithFirstKey", memo, topicCtx[s].privKey = Undef,
              <<KeyList({topicCtx[s].privKey}, 1)>>)

\* When A topic is created with the memo M with the threshold key as the
\* submit key; setSubmitKey(undefined) leaves the topic without a submit key
WhenTopicWithThresholdKey(s, memo) ==
  CreateTopic(s, "WhenTopicWithThresholdKey", memo, FALSE,
              topicCtx[s].thresholdKey)

\* whether the step goes on to record the message: getReceipt throws on a
\* status that is not SUCCESS, and so does the step (lines 74-82)
ReceiptOkMutAnyStatus(st) == TRUE
ReceiptOk(st) == st = "SUCCESS"

\* When The message M is published to the topic: setTopicId, freezeWith and
\* sign throw on an unset topic, operator or key; getReceipt throws on a
\* status that is not SUCCESS, as does the step itself
WhenPublish(s, message) ==
  LET c == topicCtx[s]
      missing == \/ c.topicId = Undef
                 \/ topicClient.operator # Undef /\ c.privKey = Undef
      tx == TopicTx("submitMessage", c.topicId, message,
                    {c.privKey, topicClient.operator}, topicClient.operator)
      st == SubmitStatus(topics, tx)
  IN
  /\ CanStep(s)
  /\ IF missing \/ topicClient.operator = Undef
       THEN TopicFinish(s, c, topicClient.operator, topics,
                        Did(s, "WhenPublish", <<message>>, TRUE, FALSE,
                            missing, <<>>, FALSE, 0, 0))
       ELSE TopicFinish(s,
                        IF ReceiptOk(st)
                          THEN [c EXCEPT !.submittedMessage = <<message>>]
                          ELSE c,
                        topicClient.operator,
                        IF st = "SUCCESS"
                          THEN [topics EXCEPT ![c.topicId].messages =
                                  @ \cup {[msg |-> message, scn |-> s]}]
                          ELSE topics,
                        Did(s, "WhenPublish", <<message>>, ~ReceiptOk(st),
                            FALSE, FALSE, <<Sent(tx, TRUE, st)>>, FALSE, 0, 0))

\* Then The message M is received by the topic and can be printed to the
\* console: assert.strictEqual(this.submittedMessage, message)
ThenReceived(s, message) ==
  /\ CanStep(s)
  /\ TopicFinish(s, topicCtx[s], topicClient.operator, topics,
                 Did(s, "ThenReceived", <<message>>,
                     topicCtx[s].submittedMessage # <<message>>, FALSE, FALSE,
                     <<>>, TRUE, 0, 0))

\* ------------------------------------------------------ specification
TokenSteps(s) ==
  \/ GivenHederaAccount(s)
  \/ WhenCreateToken(s)
  \/ \E n \in Amounts : WhenCreateFixedSupplyToken(s, n)
  \/ \E n \in Names : ThenTokenHasName(s, n)
  \/ \E n \in Symbols : ThenTokenHasSymbol(s, n)
  \/ \E n \in Amounts : ThenTokenHasDecimals(s, n)
  \/ ThenTokenOwnedByAccount(s)
  \/ \E n \in Amounts : ThenMintSucceeds(s, n)
  \/ \E n \in Amounts : ThenTotalSupplyIs(s, n)
  \/ ThenMintFails(s)

SetupSteps(s) ==
  \/ GivenFirstHederaAccount(s)
  \/ GivenSecondHederaAccount(s)
  \/ \E n \in Amounts : GivenTokenNamed(s, n)
  \/ \E n \in Amounts : GivenFirstInitiallyHolds(s, n)
  \/ \E n \in Amounts : GivenFirstHolds(s, n)
  \/ \E n \in Amounts : GivenFirstWithTokens(s, n)
  \/ \E n \in Amounts : GivenSecondInitiallyHolds(s, n)
  \/ \E n \in Amounts : GivenSecondHolds(s, n)
  \/ \E n \in Amounts : GivenSecondWithTokens(s, n)
  \/ \E n \in Amounts : GivenThirdWithTokens(s, n)
  \/ \E n \in Amounts : GivenFourthWithTokens(s, n)

TransferSteps(s) ==
  \/ \E n \in Amounts : WhenFirstCreatesTransfer(s, n)
  \/ \E n \in Amounts : WhenSecondCreatesTransfer(s, n)
  \/ \E x, y, z \in Amounts : WhenMultiPartyTransfer(s, x, y, z)
  \/ WhenFirstSubmits(s)
  \/ ThenFirstPaidFee(s)

VerifySteps(s) ==
  \/ \E n \in Amounts : ThenFirstShouldHold(s, n)
  \/ \E n \in Amounts : ThenSecondShouldHold(s, n)
  \/ \E n \in Amounts : ThenThirdHolds(s, n)
  \/ \E n \in Amounts : ThenFourthHolds(s, n)

\* every step of the token service, in any order, MainSteps steps deep
Next ==
  \/ Consensus
  \/ TokenSteps(1)
  \/ SetupSteps(1)
  \/ TransferSteps(1)
  \/ VerifySteps(1)

Spec == Init /\ [][Next]_vars

\* the scenarios that set up accounts and a token and then build and submit
\* transfers, MaxSteps steps deep, on TransferTokens tokens
TransferPrep(s) ==
  \/ \E n \in Amounts : GivenTokenNamed(s, n)
  \/ GivenSecondHederaAccount(s)
  \/ \E n \in Amounts : GivenSecondWithTokens(s, n)
  \/ \E n \in Amounts : GivenThirdWithTokens(s, n)
  \/ \E n \in Amounts : GivenFourthWithTokens(s, n)

NextTransfer == Consensus \/ TransferPrep(1) \/ TransferSteps(1)

SpecTransfer ==
  StartWith(MaxSteps, TransferTokens) /\ [][NextTransfer]_vars

\* two scenarios whose token steps interleave, sharing the module and its client
NextIso == Consensus \/ TokenSteps(1) \/ TokenSteps(2)

SpecIso == Start(MainSteps) /\ [][NextIso]_vars

\* the consensus service steps of two scenarios, interleaved
TopicSteps(s) ==
  \/ GivenFirstAccount(s)
  \/ GivenSecondAccount(s)
  \/ \E t \in Thresholds : GivenThresholdKey(s, t)
  \/ \E m \in Memos : WhenTopicWithFirstKey(s, m)
  \/ \E m \in Memos : WhenTopicWithThresholdKey(s, m)
  \/ \E m \in Messages : WhenPublish(s, m)
  \/ \E m \in Messages : ThenReceived(s, m)

NextTopic == TopicSteps(1) \/ TopicSteps(2)

SpecTopic == Start(MaxSteps) /\ [][NextTopic]_vars

\* ------------------------------------------------------------- claims
SetupNames ==
  {"GivenFirstInitiallyHolds", "GivenFirstHolds", "GivenFirstWithTokens",
   "GivenSecondInitiallyHolds", "GivenSecondHolds", "GivenSecondWithTokens",
   "GivenThirdWithTokens", "GivenFourthWithTokens"}

\* the account a set-up step sets up
TargetOf(step) ==
  CASE step \in {"GivenFirstInitiallyHolds", "GivenFirstHolds",
                 "GivenFirstWithTokens"} -> 1
    [] step \in {"GivenSecondInitiallyHolds", "GivenSecondHolds",
                 "GivenSecondWithTokens"} -> 2
    [] step = "GivenThirdWithTokens" -> 3
    [] OTHER -> 4

\* the token of the scenario whose step ran last
LastToken == tokens[ctx[last.scn].tokenId]

\* the transfer the scenario whose step ran last keeps in its context
LastPending == ctx[last.scn].pendingTransaction[1]

CreatedTransfer ==
  /\ last.step \in {"WhenFirstCreatesTransfer", "WhenSecondCreatesTransfer",
                     "WhenMultiPartyTransfer"}
  /\ last.passed

\* C1 as stated: every transfer a step constructs has entries that sum to
\* zero, the multi-party transfer for all arguments X, Y, Z included.
C1_EveryTransferSumsToZero ==
  /\ \A i \in DOMAIN last.txs :
       last.txs[i].tx.kind = "transfer"
         => SumEntries(last.txs[i].tx.entries) = 0
  /\ CreatedTransfer => SumEntries(LastPending.tx.entries) = 0

\* C1 as amended: the set-up transfers and the two-party transfers sum to
\* zero; the entries of the multi-party transfer sum to (Y + Z - 2X) * 100,
\* which is zero exactly when Y + Z = 2X.
C1_TransferSums ==
  /\ \A i \in DOMAIN last.txs :
       (last.txs[i].tx.kind = "transfer" /\ last.step \in SetupNames)
         => SumEntries(last.txs[i].tx.entries) = 0
  /\ (CreatedTransfer /\ last.step # "WhenMultiPartyTransfer")
       => /\ Len(LastPending.tx.entries) = 2
          /\ SumEntries(LastPending.tx.entries) = 0
  /\ (CreatedTransfer /\ last.step = "WhenMultiPartyTransfer")
       => LET x == last.args[1]
              y == last.args[2]
              z == last.args[3]
              sum == SumEntries(LastPending.tx.entries)
          IN /\ sum = (y + z - 2 * x) * 100
             /\ (sum = 0) <=> (y + z = 2 * x)

C1_Witness ==
  /\ CreatedTransfer
  /\ last.step = "WhenMultiPartyTransfer"
  /\ last.args = <<1, 1, 1>>
  /\ SumEntries(LastPending.tx.entries) = 0

\* C2 as stated: "An attempt to mint tokens fails" fails the scenario when the
\* network accepts the mint.
C2_AcceptedMintFailsStep ==
  (/\ last.step = "ThenMintFails"
   /\ last.txs # <<>>
   /\ MintStatus(tokens, last.txs[1].tx) = "SUCCESS")
    => ~last.passed

\* C3 as stated: but for "An attempt to mint tokens fails", a step awaits the
\* receipt of every transaction it submits, and a status other than SUCCESS
\* fails the step or is logged.
C3_EveryReceiptObtained ==
  last.step # "ThenMintFails"
    => \A i \in DOMAIN last.txs :
         /\ last.txs[i].receipt
         /\ last.txs[i].seen # "SUCCESS" => (~last.passed \/ last.logged)

\* C4: the mint or transfer of a balance set-up step credits the account set
\* up with exactly expected - current, where expected is the step's amount
\* times 10^2; a mint is issued for a positive difference only, a transfer
\* debits the first account by the same amount, and a transfer that succeeds
\* leaves the account with the expected balance.
C4_SetupCreditsDelta ==
  (last.step \in SetupNames /\ last.checked)
    => /\ last.expected = last.args[1] * 100
       /\ \A i \in DOMAIN last.txs :
            LET x == last.txs[i].tx
                d == last.expected - last.current
            IN /\ x.kind = "mint" => (x.amt = d /\ d > 0)
               /\ x.kind = "transfer"
                    => /\ NetOf(x.entries, TargetOf(last.step)) = d
                       /\ NetOf(x.entries, 1) = -d
                       /\ EntryAccts(x.entries) = {1, TargetOf(last.step)}
                       /\ last.txs[i].seen = "SUCCESS"
                            => LastToken.bal[TargetOf(last.step)]
                                 = last.expected

C4_Witness ==
  /\ last.step = "GivenSecondHolds"
  /\ last.checked
  /\ last.current = 100
  /\ last.expected = 200
  /\ \E i \in DOMAIN last.txs :
       /\ last.txs[i].tx.kind = "transfer"
       /\ last.txs[i].seen = "SUCCESS"

\* C5: a balance set-up step that finds the current balance equal to the
\* expected one submits no mint and no transfer; so the same step run a second
\* time, the first run having reached the balance, submits neither.
C5_NoActionWhenEqual ==
  (last.step \in SetupNames /\ last.checked /\ last.current = last.expected)
    => \A i \in DOMAIN last.txs :
         last.txs[i].tx.kind \notin {"mint", "transfer"}

C5_Witness ==
  /\ last.step = "GivenSecondHolds"
  /\ last.again
  /\ last.checked
  /\ last.current = last.expected
  /\ last.expected = 100
  /\ ~last.logged

\* the places of trail where op was done
TrailOf(p, op) == {i \in DOMAIN p.trail : p.trail[i].op = op}

\* C6: the transfer that "The first account submits the transaction" executes
\* was frozen, then signed with the key of every account it debits, and is
\* executed once, by one client.
C6_SignedBeforeSubmit ==
  (last.step = "WhenFirstSubmits" /\ last.txs # <<>>)
    => LET p == LastPending IN
       /\ p.frozen
       /\ Cardinality(TrailOf(p, "freeze")) = 1
       /\ \A a \in Debited(p.tx.entries) :
            \E i \in TrailOf(p, "sign") : p.trail[i].key = a
       /\ \A f \in TrailOf(p, "freeze") : \A i \in TrailOf(p, "sign") : f < i
       /\ TrailOf(p, "execute") = {Len(p.trail)}
       /\ Len(last.txs) = 1
       /\ last.txs[1].via = p.trail[Len(p.trail)].key

C6_Witness ==
  /\ last.step = "WhenFirstSubmits"
  /\ last.passed
  /\ last.txs # <<>>
  /\ Debited(LastPending.tx.entries) = {1, 2}
  /\ Len(LastPending.tx.entries) = 4

\* C7 as stated: a step that uses a context key no earlier step has set fails
\* the scenario.
C7_MissingKeyFailsStep == last.missing => ~last.passed

\* C8 as stated: a step of one scenario changes neither the context of
\* another scenario nor the client the other scenario's steps use.
C8_NoSharedState ==
  [][\A s \in Scenarios :
       nsteps'[s] # nsteps[s]
         => /\ client' = client
            /\ \A r \in Scenarios \ {s} : ctx'[r] = ctx[r]]_vars

\* C9: when "An attempt to mint N additional tokens succeeds" passes on a
\* token that "I create a token named Test Token (HTT)" created and whose
\* supply is still 0, the raw supply is N * 100 and "The total supply of the
\* token is M" would pass exactly for M = N.
C9_MintThenSupply ==
  [][(/\ nsteps' # nsteps
      /\ last'.step = "ThenMintSucceeds"
      /\ last'.passed
      /\ tokens[ctx[last'.scn].tokenId].origin = "mintable"
      /\ tokens[ctx[last'.scn].tokenId].totalSupply = 0)
       => LET info == tokens'[ctx[last'.scn].tokenId]
              n == last'.args[1]
          IN /\ info.totalSupply = n * 100
             /\ \A m \in 0..(MaxAmount + 1) :
                  TotalSupplyMatches(info, m) <=> (m = n)]_vars

C9_Witness ==
  /\ last.step = "ThenMintSucceeds"
  /\ last.passed
  /\ last.args = <<1>>
  /\ LastToken.origin = "mintable"
  /\ LastToken.totalSupply = 100

\* C10: after "The second account (initially) holds N HTT tokens" with N > 0
\* ran without an error, the second account holds exactly N tokens, and "The
\* second account should hold M HTT tokens" would pass exactly for M = N; the
\* fresh second account funded by the treasury is one such case.
C10_SecondHoldsExactly ==
  (/\ last.step \in {"GivenSecondInitiallyHolds", "GivenSecondHolds"}
   /\ last.args[1] > 0
   /\ ~last.logged)
    => LET balance == getTokenBalance(tokens, 2, ctx[last.scn].tokenId)
       IN /\ balance = last.args[1] * 100
          /\ \A m \in 0..(MaxAmount + 1) :
               BalanceMatches(balance, m) <=> (m = last.args[1])

C10_Witness ==
  /\ last.step = "GivenSecondInitiallyHolds"
  /\ last.args = <<1>>
  /\ ~last.logged
  /\ last.current = 0
  /\ Len(last.txs) = 2
  /\ last.txs[2].seen = "SUCCESS"
  /\ LastToken.treasury = 1
  /\ getTokenBalance(tokens, 2, ctx[last.scn].tokenId) = 100

\* the messages of scenario s that reached consensus with status SUCCESS
PublishedBy(s) ==
  {m \in Messages :
     \E i \in DOMAIN topics : [msg |-> m, scn |-> s] \in topics[i].messages}

\* C11: "The message M is published to the topic" passes exactly when the
\* receipt status is SUCCESS, and then M is the submitted message; on a topic
\* with a submit key the status is SUCCESS only when the signatures satisfy
\* that key; the submitted message of a scenario is always a message that
\* scenario published with a SUCCESS receipt, so "The message M is received by
\* the topic" passes only if an earlier step of the scenario published M.
C11_ReceivedOnlyIfPublished ==
  /\ \A s \in Scenarios :
       topicCtx[s].submittedMessage # <<>>
         => topicCtx[s].submittedMessage[1] \in PublishedBy(s)
  /\ last.step = "WhenPublish"
       => /\ last.passed
            <=> (last.txs # <<>> /\ last.txs[1].seen = "SUCCESS")
          /\ last.passed
               => topicCtx[last.scn].submittedMessage = <<last.args[1]>>
          /\ (last.passed /\ topics[last.txs[1].tx.topic].submitKey # <<>>)
               => Satisfies(last.txs[1].tx.sigs,
                            topics[last.txs[1].tx.topic].submitKey[1])
  /\ (last.step = "ThenReceived" /\ last.passed)
       => last.args[1] \in PublishedBy(last.scn)

\* a publish rejected for its signature (a 2 of 2 threshold key, signed by
\* the first account only), which records no message, in a scenario whose
\* other scenario published the same message with success
C11_Witness ==
  /\ last.step = "WhenPublish"
  /\ ~last.passed
  /\ last.txs # <<>>
  /\ last.txs[1].seen = "INVALID_SIGNATURE"
  /\ topics[last.txs[1].tx.topic].submitKey[1].threshold = 2
  /\ topicCtx[last.scn].submittedMessage = <<>>
  /\ \E r \in Scenarios \ {last.scn} :
       topicCtx[r].submittedMessage = <<last.args[1]>>

\* the set-up steps of the second, third and fourth account
OtherSetupNames ==
  {"GivenSecondInitiallyHolds", "GivenSecondHolds", "GivenSecondWithTokens",
   "GivenThirdWithTokens", "GivenFourthWithTokens"}

\* the step just run had the account it sets up and the token in its context
LastHasTarget ==
  LET c == ctx[last.scn] IN
  /\ c.tokenId # Undef
  /\ last.step \in {"GivenSecondInitiallyHolds", "GivenSecondHolds"}
       => (c.secondAccountId # Undef /\ c.secondPrivateKey # Undef)

\* the step just run submitted an association for its account as the first
\* thing it submitted
LastAssociatesFirst ==
  /\ last.txs # <<>>
  /\ last.txs[1].tx.kind = "associate"
  /\ last.txs[1].tx.acct = TargetOf(last.step)
  /\ last.txs[1].tx.token = ctx[last.scn].tokenId

\* C12 as stated: whenever a token amount (N > 0) is set up for the second,
\* third or fourth account, the step submits the association first, whatever
\* the account's state.
C12_AlwaysAssociatesFirst ==
  (last.step \in OtherSetupNames /\ last.args[1] > 0 /\ LastHasTarget)
    => LastAssociatesFirst

\* C12 as amended: a set-up step of the second, third or fourth account
\* submits a transfer only after it submitted an association for that account
\* and token, or when the account was already associated when the step began;
\* with N > 0 the four steps other than "The second account holds N" submit
\* the association first whatever the account's state, and "The second
\* account holds N" submits it, for any N, exactly when the account is not
\* yet associated.
C12_AssociateBeforeTransfer ==
  [][(nsteps' # nsteps /\ last'.step \in OtherSetupNames)
       => LET tok == ctx'[last'.scn].tokenId
              acct == TargetOf(last'.step)
              assocs == {i \in DOMAIN last'.txs :
                           /\ last'.txs[i].tx.kind = "associate"
                           /\ last'.txs[i].tx.acct = acct
                           /\ last'.txs[i].tx.token = tok}
          IN /\ \A i \in DOMAIN last'.txs :
                  last'.txs[i].tx.kind = "transfer"
                    => /\ last'.txs[i].tx.token = tok
                       /\ NetOf(last'.txs[i].tx.entries, acct) # 0
                       /\ \/ \E j \in assocs : j < i
                          \/ acct \in tokens[tok].assoc
             /\ (last'.step # "GivenSecondHolds" /\ last'.args[1] > 0
                 /\ LastHasTarget')
                  => LastAssociatesFirst'
             /\ (last'.step = "GivenSecondHolds" /\ LastHasTarget')
                  => (assocs # {} <=> acct \notin tokens[tok].assoc)]_vars

\* "The second account holds 2" on an account that is associated and holds 1:
\* the transfer is submitted without an association
C12_Witness ==
  /\ last.step = "GivenSecondHolds"
  /\ last.args = <<2>>
  /\ Len(last.txs) = 1
  /\ last.txs[1].tx.kind = "transfer"
  /\ last.txs[1].seen = "SUCCESS"
  /\ last.current = 100

\* C13 as stated: a balance set-up step that finds current different from
\* expected, the account not being the treasury in need of more (current <
\* expected), submits a transfer of expected - current to the account; the
\* set-up steps of the first account included.
C13_TransferWhenNoMint ==
  (/\ last.step \in SetupNames
   /\ last.checked
   /\ ~last.logged
   /\ last.current # last.expected
   /\ ~(LastToken.treasury = TargetOf(last.step)
        /\ last.current < last.expected))
    => \E i \in DOMAIN last.txs :
         /\ last.txs[i].tx.kind = "transfer"
         /\ NetOf(last.txs[i].tx.entries, TargetOf(last.step))
              = last.expected - last.current

FirstSetupNames ==
  {"GivenFirstInitiallyHolds", "GivenFirstHolds", "GivenFirstWithTokens"}

\* the mints the step just run submitted
LastMints == {i \in DOMAIN last.txs : last.txs[i].tx.kind = "mint"}

\* C14: a set-up step of the first account submits a mint exactly when the
\* first account is the token's treasury and current < expected (and no
\* error was caught); the mint is frozen with the client, so that its
\* operator pays, and signed with the first account's key; a set-up step of
\* the second, third or fourth account submits no mint.
C14_MintIffTreasuryBelow ==
  /\ (last.step \in FirstSetupNames /\ last.checked)
       => LET first == ctx[last.scn].firstAccountId
              below == /\ LastToken.treasury = first
                       /\ last.current < last.expected
          IN /\ LastMints # {} => below
             /\ (below /\ ~last.logged) => Cardinality(LastMints) = 1
             /\ \A i \in LastMints :
                  /\ last.txs[i].tx.token = ctx[last.scn].tokenId
                  /\ last.txs[i].tx.payer # Undef
                  /\ last.txs[i].tx.payer \in last.txs[i].tx.sigs
                  /\ ctx[last.scn].firstPrivateKey \in last.txs[i].tx.sigs
  /\ last.step \in OtherSetupNames => LastMints = {}

\* the treasury holds 1 token and is set up with 2: one mint of 100
C14_Witness ==
  /\ last.step = "GivenFirstHolds"
  /\ last.current = 100
  /\ last.expected = 200
  /\ LastToken.treasury = 1
  /\ Cardinality(LastMints) = 1
  /\ last.txs[1].tx.amt = 100
  /\ 1 \in last.txs[1].tx.sigs

VerifyNames ==
  {"ThenFirstShouldHold", "ThenSecondShouldHold", "ThenThirdHolds",
   "ThenFourthHolds"}

\* the transactions of the step just run that failed: a receipt the step saw
\* with a status other than SUCCESS, or a transaction still in flight that
\* the ledger rejects
LastFailures ==
  {i \in DOMAIN last.txs :
     \/ last.txs[i].receipt /\ last.txs[i].seen # "SUCCESS"
     \/ /\ ~last.txs[i].receipt
        /\ \E f \in inflight : f.tx = last.txs[i].tx
        /\ TxStatus(tokens, last.txs[i].tx) # "SUCCESS"}

\* C15 as stated: a failed mint, association or transfer of a balance set-up
\* step is caught and logged and the step passes, whereas a verification step
\* that finds a balance different from the expected one fails the scenario.
C15_SetupFailureLoggedNonFatal ==
  /\ (last.step \in SetupNames /\ LastFailures # {})
       => (last.passed /\ last.logged)
  /\ (last.step \in VerifyNames /\ last.checked
      /\ last.current # last.expected * 100)
       => ~last.passed

\* C16 as stated: the fee payer of the transfer that "The first account
\* submits the transaction" submits (the operator of the client it was frozen
\* with) is the first account, the operator of the client that submits it,
\* whether the first or the second account created the transfer.
C16_PayerIsFirstAccount ==
  (last.step = "WhenFirstSubmits" /\ last.txs # <<>>)
    => /\ last.txs[1].tx.payer = ctx[last.scn].firstAccountId
       /\ last.txs[1].tx.payer = last.txs[1].via

\* C17 as stated: a transfer submitted by a set-up step of the second, third
\* or fourth account debits the first account only, and every account it
\* debits has signed it, whatever current and expected are.
C17_SetupTransferDebitsFirstOnly ==
  last.step \in OtherSetupNames
    => \A i \in DOMAIN last.txs :
         last.txs[i].tx.kind = "transfer"
           => /\ Debited(last.txs[i].tx.entries)
                   \subseteq {ctx[last.scn].firstAccountId}
              /\ Debited(last.txs[i].tx.entries) \subseteq last.txs[i].tx.sigs

\* C18: "A first hedera account with more than H hbar and T HTT tokens"
\* creates a token and sets tokenId only when the context holds no tokenId,
\* and leaves tokenId as it is otherwise; "A token named Test Token (HTT) with
\* N tokens" sets firstAccountId and firstPrivateKey only when firstAccountId
\* is unset, and when it passes tokenId is the token it has just created,
\* whatever tokenId was before.
C18_FallbacksKeepReferences ==
  [][(nsteps' # nsteps
      /\ last'.step \in {"GivenFirstWithTokens", "GivenTokenNamed"})
       => LET s == last'.scn
              old == ctx[s]
              new == ctx'[s]
          IN /\ (last'.step = "GivenFirstWithTokens" /\ old.tokenId # Undef)
                  => (new.tokenId = old.tokenId /\ Len(tokens') = Len(tokens))
             /\ (last'.step = "GivenFirstWithTokens" /\ old.tokenId = Undef)
                  => IF last'.passed
                       THEN /\ Len(tokens') = Len(tokens) + 1
                            /\ new.tokenId = Len(tokens')
                       ELSE new.tokenId = Undef /\ tokens' = tokens
             /\ (last'.step = "GivenTokenNamed"
                 /\ old.firstAccountId # Undef)
                  => /\ new.firstAccountId = old.firstAccountId
                     /\ new.firstPrivateKey = old.firstPrivateKey
             /\ (last'.step = "GivenTokenNamed"
                 /\ old.firstAccountId = Undef)
                  => /\ new.firstAccountId # Undef
                     /\ new.firstPrivateKey # Undef
             /\ (last'.step = "GivenTokenNamed" /\ last'.passed)
                  => /\ Len(tokens') = Len(tokens) + 1
                     /\ new.tokenId = Len(tokens')
                     /\ new.tokenId # old.tokenId]_vars

\* the fallback token of "A first hedera account ..." is in the context, then
\* "A token named Test Token (HTT) with 1 tokens" replaces it, the first
\* account staying as it was
C18_Witness ==
  /\ last.step = "GivenTokenNamed"
  /\ last.passed
  /\ last.args = <<1>>
  /\ Len(tokens) = 2
  /\ tokens[1].origin = "fallback"
  /\ ctx[last.scn].tokenId = 2
  /\ ctx[last.scn].firstAccountId = 1

=============================================================================
